---------------------------- MODULE Spec2Model ----------------------------
(***************************************************************************)
(* Bibliographic reference consolidation of the notebook exporter          *)
(* (ipynb_smart_exporter/utils/reference_manager.py).                      *)
(*                                                                         *)
(* Text is a sequence of tokens.  A token is a record [t, n, k]: t is the  *)
(* kind, n a visible number, k the number of an anchor token.  Every       *)
(* multi-character literal the regular expressions of the source look for  *)
(* is one token, and the remaining characters are single-character tokens: *)
(*   sp        one blank (any \s character other than the newline)         *)
(*   nl        the newline                                                 *)
(*   a b . ( ) one such character                                          *)
(*   hr        ---                                                         *)
(*   hdr       **References :**   (with the accented spelling)             *)
(*   pb        <!-- PAGE_BREAK -->                                         *)
(*   h3        ### References     (heading of the generated section)       *)
(*   def       <a id="ref<k>"></a>[<n>]                                    *)
(*   cit       [[<n>]](#ref<k>)                                            *)
(*   gcit      [[<n>]](#global_ref<k>)                                     *)
(*   ganchor   <a id="global_ref<k>"></a>**[<n>]**                         *)
(* The regular expressions are modelled by what they match on such text:   *)
(* leftmost match, greedy quantifiers, backtracking.                       *)
(***************************************************************************)
EXTENDS Integers, Sequences, FiniteSets, TLC

VARIABLES
    nb,                 \* the cells of the notebook as the caller passed them
    cells,              \* notebook.cells: [cell_type, source, references_section]
    objs,               \* the Reference objects, by identity (1..Len(objs))
    unique_references,  \* normalized text -> Reference identity
    cell_local_refs,    \* <<cell index, local number>> -> Reference identity
    global_order,       \* sequence of Reference identities
    pc,                 \* position in process_notebook / in a function call
    idx,                \* cell index of the running loop (0-based)
    markdown_text,      \* local variable of process_markdown_cell
    arg,                \* argument text of a function-level call
    ret,                \* its result
    ret2,               \* the result of applying the function to ret
    merged_cfg,         \* preprocess_notebook: the configuration in force
    new_cells           \* preprocess_notebook: the cells kept so far

vars == <<nb, cells, objs, unique_references, cell_local_refs, global_order,
          pc, idx, markdown_text, arg, ret, ret2, merged_cfg, new_cells>>

----------------------------------------------------------------------------
(* Tokens and text helpers                                                 *)

Tok(t, n, k) == [t |-> t, n |-> n, k |-> k]
SP  == Tok("sp", 0, 0)
NL  == Tok("nl", 0, 0)
HR  == Tok("hr", 0, 0)
HDR == Tok("hdr", 0, 0)
PB  == Tok("pb", 0, 0)
H3  == Tok("h3", 0, 0)
Ch(c) == Tok(c, 0, 0)
Def(k, n) == Tok("def", n, k)
Cit(n, k) == Tok("cit", n, k)
GCit(g) == Tok("gcit", g, g)
GAnchor(g) == Tok("ganchor", g, g)

\* \s of the regular expressions, and the characters str.strip/split remove
IsSpace(x) == x.t \in {"sp", "nl"}
\* . of the regular expressions (no DOTALL): anything but the newline
IsDot(x) == x.t # "nl"

Min(S) == CHOOSE x \in S : \A y \in S : x <= y
Max(S) == CHOOSE x \in S : \A y \in S : x >= y

\* s[i..j] as Python's s[i-1:j]; empty when j < i
Slice(s, i, j) == IF j < i THEN <<>> ELSE SubSeq(s, i, j)

\* str.rstrip(): drop the trailing whitespace
rstrip(s) ==
    LET keep == {i \in 1..Len(s) : ~IsSpace(s[i])}
    IN  IF keep = {} THEN <<>> ELSE SubSeq(s, 1, Max(keep))

\* str.strip(): drop the leading and trailing whitespace
strip(s) ==
    LET keep == {i \in 1..Len(s) : ~IsSpace(s[i])}
    IN  IF keep = {} THEN <<>> ELSE SubSeq(s, Min(keep), Max(keep))

\* All sequences over S of length at most n
RECURSIVE SeqsUpTo(_, _)
SeqsUpTo(S, n) ==
    IF n = 0 THEN {<<>>}
    ELSE LET shorter == SeqsUpTo(S, n - 1)
         IN  shorter \cup {Append(s, x) : s \in {t \in shorter : Len(t) = n - 1}, x \in S}

\* Concatenation of a sequence of sequences
RECURSIVE Concat(_)
Concat(ss) == IF ss = <<>> THEN <<>> ELSE Head(ss) \o Concat(Tail(ss))

----------------------------------------------------------------------------
(* Reference.normalize_for_dedup                                           *)

\* re.sub(r'<!--\s*PAGE_BREAK\s*-->', '', text)
RemovePageBreaks(text) == SelectSeq(text, LAMBDA x : x # PB)

\* Whether r'\s*\([^)]+\)\s*\.?\s*$' matches text from position i on:
\* blanks, "(", one or more characters other than ")", ")", then blanks with
\* at most one "." among them up to the end of the text.
ParenNoteMatchesAt(text, i) ==
    LET n == Len(text)
        nonws == {j \in i..n : ~IsSpace(text[j])}
    IN  /\ nonws # {}
        /\ LET open == Min(nonws)
               closes == {m \in (open + 1)..n : text[m] = Ch(")")}
           IN  /\ text[open] = Ch("(")
               /\ closes # {}
               /\ LET close == Min(closes)
                      rest == {j \in (close + 1)..n : ~IsSpace(text[j])}
                  IN  /\ close >= open + 2
                      /\ Cardinality(rest) <= 1
                      /\ \A j \in rest : text[j] = Ch(".")

\* re.sub(r'\s*\([^)]+\)\s*\.?\s*$', '.', text): the leftmost match runs to
\* the end of the text, so there is at most one replacement.
ReplaceTrailingNote(text) ==
    LET starts == {i \in 1..Len(text) : ParenNoteMatchesAt(text, i)}
    IN  IF starts = {} THEN text
        ELSE Append(Slice(text, 1, Min(starts) - 1), Ch("."))

\* re.sub(r'\.+', '.', text): a run of dots becomes one dot
CollapseDots(text) ==
    LET keep == {i \in 1..Len(text) :
                    ~(text[i] = Ch(".") /\ i > 1 /\ text[i - 1] = Ch("."))}
        F[i \in 0..Len(text)] ==
            IF i = 0 THEN <<>>
            ELSE IF i \in keep THEN Append(F[i - 1], text[i]) ELSE F[i - 1]
    IN  F[Len(text)]

\* ' '.join(text.split()): whitespace runs become one blank, none at the ends
JoinSplit(text) ==
    LET s == strip(text)
        F[i \in 0..Len(s)] ==
            IF i = 0 THEN <<>>
            ELSE IF IsSpace(s[i])
                 THEN IF IsSpace(s[i - 1]) THEN F[i - 1] ELSE Append(F[i - 1], SP)
                 ELSE Append(F[i - 1], s[i])
    IN  F[Len(s)]

normalize_for_dedup(text) ==
    strip(JoinSplit(CollapseDots(ReplaceTrailingNote(RemovePageBreaks(text)))))

----------------------------------------------------------------------------
(* Reference and the patterns of ReferenceManager                          *)

\* Reference.__init__: global_num = 0 stands for None
Reference(local_id, local_num, definition, cell_index) ==
    [local_id |-> local_id, local_num |-> local_num,
     definition |-> strip(definition), global_num |-> 0,
     cell_index |-> cell_index]

\* CITATION_PATTERN r'\[\[(\d+)\]\]\(#(ref\d+)\)'
CITATION_PATTERN(x) == x.t = "cit"

\* Last position of the line that holds position q
LineEnd(text, q) ==
    Min({j \in q..Len(text) : text[j] = NL} \cup {Len(text) + 1}) - 1

\* DEFINITION_START_PATTERN r'<a\s+id="(ref\d+)"\s*></a>\[(\d+)\]\s*(.+)' tried
\* at position p: the position where group 3 starts, 0 when there is no match.
\* \s* takes the whole run of whitespace after [N] when a character other
\* than the newline follows it; otherwise it gives back characters until
\* (.+) can start, which is at the last blank of the run.
DefBodyStart(text, p) ==
    IF p > Len(text) \/ text[p].t # "def" THEN 0
    ELSE LET nonws == {j \in (p + 1)..Len(text) : ~IsSpace(text[j])}
             dots == {j \in (p + 1)..Len(text) : IsDot(text[j])}
         IN  IF nonws # {} THEN Min(nonws)
             ELSE IF dots # {} THEN Max(dots)
             ELSE 0

\* DEFINITION_START_PATTERN.search(text[from-1:]): position of the leftmost
\* match at or after from, 0 when there is none
DefSearch(text, from) ==
    LET hits == {p \in from..Len(text) : DefBodyStart(text, p) # 0}
    IN  IF hits = {} THEN 0 ELSE Min(hits)

\* match.end() of the match at p, as the last matched position: (.+) runs to
\* the end of its line
DefMatchEnd(text, p) == LineEnd(text, DefBodyStart(text, p))

\* DEFINITION_START_PATTERN.finditer(text): the match positions, in order,
\* each search resuming after the previous match's end
RECURSIVE DefFindIter(_, _)
DefFindIter(text, from) ==
    LET p == DefSearch(text, from)
    IN  IF p = 0 THEN <<>>
        ELSE <<p>> \o DefFindIter(text, DefMatchEnd(text, p) + 1)

\* REFERENCE_SECTION_PATTERN r'^\s*---\s*\n\s*\*\*References\s*:\*\*\s*\n'
\* (MULTILINE) tried at position i: a line start, whitespace, ---, whitespace
\* holding a newline, the header, whitespace holding a newline.
SectionMatchesAt(text, i) ==
    LET n == Len(text)
        nonws == {j \in i..n : ~IsSpace(text[j])}
    IN  /\ (i = 1 \/ text[i - 1] = NL)
        /\ nonws # {}
        /\ LET j == Min(nonws)
               after == {h \in (j + 1)..n : ~IsSpace(text[h])}
           IN  /\ text[j] = HR
               /\ after # {}
               /\ LET h == Min(after)
                      rest == {e \in (h + 1)..n : ~IsSpace(text[e])}
                      last == IF rest = {} THEN n ELSE Min(rest) - 1
                  IN  /\ text[h] = HDR
                      /\ \E m \in (j + 1)..(h - 1) : text[m] = NL
                      /\ \E m \in (h + 1)..last : text[m] = NL

\* REFERENCE_SECTION_PATTERN.search(text): match.start() as a position, 0
\* when there is no match
SectionSearch(text) ==
    LET hits == {i \in 1..Len(text) : SectionMatchesAt(text, i)}
    IN  IF hits = {} THEN 0 ELSE Min(hits)

\* text.split('\n')
RECURSIVE Split(_)
Split(text) ==
    LET nls == {j \in 1..Len(text) : text[j] = NL}
    IN  IF nls = {} THEN <<text>>
        ELSE <<Slice(text, 1, Min(nls) - 1)>>
             \o Split(Slice(text, Min(nls) + 1, Len(text)))

\* '\n'.join(lines)
RECURSIVE Join(_)
Join(lines) ==
    IF lines = <<>> THEN <<>>
    ELSE IF Len(lines) = 1 THEN lines[1]
    ELSE lines[1] \o <<NL>> \o Join(Tail(lines))

----------------------------------------------------------------------------
(* ReferenceManager.extract_references_from_cell                           *)

\* defined_refs[ref_id] = ref on an insertion-ordered dict, kept as the
\* sequence of its values: a key already present keeps its place and takes
\* the new value.
DictPut(d, ref) ==
    IF \E i \in 1..Len(d) : d[i].local_id = ref.local_id
    THEN [i \in 1..Len(d) |-> IF d[i].local_id = ref.local_id THEN ref ELSE d[i]]
    ELSE Append(d, ref)

\* The Reference built for the definition matched at position p
DefinitionAt(cell_index, text, p) ==
    LET start == DefBodyStart(text, p)
        next == DefSearch(text, DefMatchEnd(text, p) + 1)
        stop == IF next = 0 THEN Len(text) ELSE next - 1
    IN  Reference(text[p].k, text[p].n, strip(Slice(text, start, stop)), cell_index)

\* The definitions of the cell as the values of defined_refs, in dict order
extract_references_from_cell(cell_index, text) ==
    LET ms == DefFindIter(text, 1)
        F[i \in 0..Len(ms)] ==
            IF i = 0 THEN <<>>
            ELSE DictPut(F[i - 1], DefinitionAt(cell_index, text, ms[i]))
    IN  F[Len(ms)]

----------------------------------------------------------------------------
(* ReferenceManager.remove_reference_section (the second, effective one)   *)

\* Number of lines, the --- line included, searched for a definition start
WindowLines == 5

\* Strategy 2: the lines that are --- with a definition start in the window
\* lines[i:i+5] (0-based i, as in the source)
Strategy2Lines(lines) ==
    {i \in 0..(Len(lines) - 1) :
        /\ strip(lines[i + 1]) = <<HR>>
        /\ DefSearch(Join(Slice(lines, i + 1,
                                Min({i + WindowLines, Len(lines)}))), 1) # 0}

\* Faulty variant of remove_reference_section: a page-break marker that ends the
\* retained text is cut with the reference block
remove_reference_section_drops_page_break(text) ==
    LET m1 == SectionSearch(text)
        lines == Split(text)
        s2 == Strategy2Lines(lines)
        m3 == DefSearch(text, 1)
        kept == IF m1 # 0 THEN rstrip(Slice(text, 1, m1 - 1))
                ELSE IF s2 # {} THEN rstrip(Join(Slice(lines, 1, Min(s2))))
                ELSE rstrip(Slice(text, 1, m3 - 1))
    IN  IF m1 = 0 /\ s2 = {} /\ m3 = 0 THEN text
        ELSE IF kept # <<>> /\ kept[Len(kept)] = PB
        THEN rstrip(Slice(kept, 1, Len(kept) - 1))
        ELSE kept

\* Faulty variant of remove_reference_section: the text before the first
\* definition start is returned with its trailing whitespace
remove_reference_section_untrimmed(text) ==
    LET m1 == SectionSearch(text)
        lines == Split(text)
        s2 == Strategy2Lines(lines)
        m3 == DefSearch(text, 1)
    IN  IF m1 # 0 THEN rstrip(Slice(text, 1, m1 - 1))
        ELSE IF s2 # {} THEN rstrip(Join(Slice(lines, 1, Min(s2))))
        ELSE IF m3 # 0 THEN Slice(text, 1, m3 - 1)
        ELSE text

\* Faulty variant of remove_reference_section: the lines kept above a --- rule
\* are joined by blanks
remove_reference_section_rejoined(text) ==
    LET m1 == SectionSearch(text)
        lines == Split(text)
        s2 == Strategy2Lines(lines)
        m3 == DefSearch(text, 1)
        kept == Slice(lines, 1, Min(s2))
    IN  IF m1 # 0 THEN rstrip(Slice(text, 1, m1 - 1))
        ELSE IF s2 # {}
        THEN rstrip(Concat([i \in 1..Len(kept) |-> kept[i] \o <<SP>>]))
        ELSE IF m3 # 0 THEN rstrip(Slice(text, 1, m3 - 1))
        ELSE text

remove_reference_section(text) ==
    LET m1 == SectionSearch(text)
        lines == Split(text)
        s2 == Strategy2Lines(lines)
        m3 == DefSearch(text, 1)
    IN  IF m1 # 0 THEN rstrip(Slice(text, 1, m1 - 1))
        ELSE IF s2 # {} THEN rstrip(Join(Slice(lines, 1, Min(s2))))
        ELSE IF m3 # 0 THEN rstrip(Slice(text, 1, m3 - 1))
        ELSE text

----------------------------------------------------------------------------
(* ReferenceManager: the registry and the methods that read it             *)

\* d[key] = value on a dict
DictSet(d, key, value) ==
    [x \in (DOMAIN d) \cup {key} |-> IF x = key THEN value ELSE d[x]]

\* Faulty variant of RegisterDefinition: every definition becomes a new
\* Reference, whether or not its normalized text is already registered
RegisterDefinitionNoDedup(R, cell_idx, ref) ==
    LET normalized == normalize_for_dedup(ref.definition)
        key == <<cell_idx, ref.local_num>>
        id == Len(R.objs) + 1
    IN  [objs |-> Append(R.objs, ref),
         unique_references |-> DictSet(R.unique_references, normalized, id),
         global_order |-> Append(R.global_order, id),
         cell_local_refs |-> DictSet(R.cell_local_refs, key, id)]

\* Lines 193-208: one definition of defined_refs entered in the registry
\* R = [objs, unique_references, cell_local_refs, global_order]
RegisterDefinition(R, cell_idx, ref) ==
    LET normalized == normalize_for_dedup(ref.definition)
        key == <<cell_idx, ref.local_num>>
    IN  IF normalized \in DOMAIN R.unique_references
        THEN [R EXCEPT !.cell_local_refs =
                 DictSet(@, key, R.unique_references[normalized])]
        ELSE LET id == Len(R.objs) + 1
             IN  [objs |-> Append(R.objs, ref),
                  unique_references |-> DictSet(R.unique_references, normalized, id),
                  global_order |-> Append(R.global_order, id),
                  cell_local_refs |-> DictSet(R.cell_local_refs, key, id)]

\* Lines 190-208: the definitions of one markdown cell entered in order
RegisterCell(R, cell_idx, markdown_source) ==
    LET defined_refs == extract_references_from_cell(cell_idx, markdown_source)
        F[i \in 0..Len(defined_refs)] ==
            IF i = 0 THEN R
            ELSE RegisterDefinition(F[i - 1], cell_idx, defined_refs[i])
    IN  F[Len(defined_refs)]

\* Faulty variant of replace_citation: the lookup goes by the anchor token of the
\* citation instead of its visible number
replace_citation_by_anchor(cell_index, x) ==
    LET key == <<cell_index, x.k>>
    IN  IF key \notin DOMAIN cell_local_refs THEN x
        ELSE GCit(objs[cell_local_refs[key]].global_num)

\* Faulty variant of replace_citation: a number the cell does not define is looked
\* up in the other cells
replace_citation_any_cell(cell_index, x) ==
    LET key == <<cell_index, x.n>>
        others == {k \in DOMAIN cell_local_refs : k[2] = x.n}
    IN  IF key \in DOMAIN cell_local_refs
        THEN GCit(objs[cell_local_refs[key]].global_num)
        ELSE IF others # {}
        THEN GCit(objs[cell_local_refs[CHOOSE k \in others : TRUE]].global_num)
        ELSE x

\* Faulty variant of replace_citation: the rewritten citation stays in the
\* local namespace, [[G]](#refG)
replace_citation_local_namespace(cell_index, x) ==
    LET key == <<cell_index, x.n>>
    IN  IF key \notin DOMAIN cell_local_refs THEN x
        ELSE LET G == objs[cell_local_refs[key]].global_num IN Cit(G, G)

\* The replacement of one citation (replace_citation)
replace_citation(cell_index, x) ==
    LET key == <<cell_index, x.n>>
    IN  IF key \notin DOMAIN cell_local_refs THEN x
        ELSE GCit(objs[cell_local_refs[key]].global_num)

update_citations_in_text(cell_index, text) ==
    [i \in 1..Len(text) |->
        IF CITATION_PATTERN(text[i]) THEN replace_citation(cell_index, text[i])
        ELSE text[i]]

\* Faulty variant of ReferenceEntry: the entry carries the local number
ReferenceEntryLocalNumber(ref) ==
    <<GAnchor(ref.local_num), SP>> \o ref.definition \o <<NL, NL>>

\* Faulty variant of ReferenceEntry: the page-break markers are cleaned from the
\* definition
ReferenceEntryWithoutPageBreaks(ref) ==
    <<GAnchor(ref.global_num), SP>> \o RemovePageBreaks(ref.definition) \o <<NL, NL>>

\* The entry of one Reference in the generated section
ReferenceEntry(ref) ==
    <<GAnchor(ref.global_num), SP>> \o ref.definition \o <<NL, NL>>

generate_references_section ==
    IF global_order = <<>> THEN <<>>
    ELSE <<NL, NL, HR, NL, NL, H3, NL, NL>>
         \o Concat([i \in 1..Len(global_order) |-> ReferenceEntry(objs[global_order[i]])])

----------------------------------------------------------------------------
(* Bounds                                                                  *)

MaxNormLen == 5

NormAlphabet == {Ch("a"), Ch("."), Ch("("), Ch(")"), SP, NL, PB}
NormTexts == SeqsUpTo(NormAlphabet, MaxNormLen)

----------------------------------------------------------------------------
(* Function-level specification: normalize_for_dedup applied to a          *)
(* definition text, and applied again to its own result.                   *)

NoNotebook ==
    /\ nb = <<>>
    /\ cells = <<>>
    /\ objs = <<>>
    /\ unique_references = <<>>
    /\ cell_local_refs = <<>>
    /\ global_order = <<>>
    /\ idx = 0
    /\ markdown_text = <<>>
    /\ merged_cfg = <<>>
    /\ new_cells = <<>>

NotebookUnchanged ==
    UNCHANGED <<nb, cells, objs, unique_references, cell_local_refs, global_order,
                idx, markdown_text, merged_cfg, new_cells>>

InitNorm ==
    /\ NoNotebook
    /\ arg \in NormTexts
    /\ ret = <<>>
    /\ ret2 = <<>>
    /\ pc = "call"

Normalize ==
    /\ pc = "call"
    /\ ret' = normalize_for_dedup(arg)
    /\ pc' = "ret"
    /\ UNCHANGED <<arg, ret2>>
    /\ NotebookUnchanged

NormalizeAgain ==
    /\ pc = "ret"
    /\ ret2' = normalize_for_dedup(ret)
    /\ pc' = "ret2"
    /\ UNCHANGED <<arg, ret>>
    /\ NotebookUnchanged

NextNorm == Normalize \/ NormalizeAgain

SpecNorm == InitNorm /\ [][NextNorm]_vars

----------------------------------------------------------------------------
(* Function-level specification: remove_reference_section applied to a    *)
(* cell text.                                                              *)

MaxRemLen == 4
MaxRemLines == 5

RemAlphabet == {Ch("a"), SP, NL, HR, HDR, PB, Def(1, 1)}

\* Lines a cell is made of: blank, prose, the rule (bare and with blanks
\* around it), the header, the page break, a definition that begins its
\* line and one in the middle of a line.
RemLines ==
    { <<>>, <<Ch("a")>>, <<HR>>, <<SP, HR, SP>>, <<HDR>>, <<PB>>,
      <<Def(1, 1), SP, Ch("a")>>,
      <<Ch("a"), SP, Def(1, 1), SP, Ch("a")>> }

\* Lines for the texts in which a rule stands some lines above a definition
MaxWinLines == 6
WinLines == { <<>>, <<Ch("a")>>, <<HR>>, <<Def(1, 1), SP, Ch("a")>>, <<Def(1, 1)>> }

RemTexts ==
    SeqsUpTo(RemAlphabet, MaxRemLen)
        \cup {Join(ls) : ls \in SeqsUpTo(RemLines, MaxRemLines)}
        \cup {Join(ls) : ls \in SeqsUpTo(WinLines, MaxWinLines)}

InitRemove ==
    /\ NoNotebook
    /\ arg \in RemTexts
    /\ ret = <<>>
    /\ ret2 = <<>>
    /\ pc = "call"

Remove ==
    /\ pc = "call"
    /\ ret' = remove_reference_section(arg)
    /\ pc' = "ret"
    /\ UNCHANGED <<arg, ret2>>
    /\ NotebookUnchanged

NextRemove == Remove

SpecRemove == InitRemove /\ [][NextRemove]_vars

----------------------------------------------------------------------------
(* ReferenceManager.process_notebook on a notebook                         *)

MaxCells == 2
MaxSegs == 2
MaxNum == 2

Nums == 1..MaxNum

\* Definition texts: the first two have the same normalized text
Bodies ==
    { <<Ch("a"), Ch(".")>>,
      <<Ch("a"), Ch("."), SP, Ch("("), Ch("b"), Ch(")")>>,
      <<Ch("b"), Ch(".")>> }

\* Citations [[n]](#refk), k >= n: the anchor agrees with the number or is stale
CitSegs == {<<Cit(p[1], p[2])>> : p \in {q \in Nums \X Nums : q[2] >= q[1]}}
\* Definitions <a id="refk"></a>[n] on a line of their own, k <= n: two
\* definitions of a cell may share the anchor, the number, both or neither
DefSegs ==
    {<<NL, Def(p[1], p[2]), SP>> \o body :
        p \in {q \in Nums \X Nums : q[1] <= q[2]}, body \in Bodies}
SepSegs == {<<NL, HR, NL, HDR, NL>>}
ProseSegs == {<<Ch("a")>>}
Segments == CitSegs \cup DefSegs \cup SepSegs \cup ProseSegs

MarkdownSources == {Concat(ss) : ss \in SeqsUpTo(Segments, MaxSegs)}
CodeSources == {<<Cit(1, 1), NL, Def(1, 1), SP, Ch("b"), Ch(".")>>}

\* A cell: its type, its source and, of its metadata, the references_section
\* flag, the tags and the smart_exporter section
Cell(cell_type, source) ==
    [cell_type |-> cell_type, source |-> source, references_section |-> FALSE,
     tags |-> <<>>, smart_exporter |-> <<>>]

NotebookCells ==
    {Cell("markdown", src) : src \in MarkdownSources}
        \cup {Cell("code", src) : src \in CodeSources}

Notebooks == [1..MaxCells -> NotebookCells]

\* preprocess_notebook works on notebook = deepcopy(nb)
Init ==
    /\ nb \in Notebooks
    /\ cells = nb
    /\ objs = <<>>
    /\ unique_references = <<>>
    /\ cell_local_refs = <<>>
    /\ global_order = <<>>
    /\ pc = "map"
    /\ idx = 0
    /\ markdown_text = <<>>
    /\ arg = <<>>
    /\ ret = <<>>
    /\ ret2 = <<>>
    /\ merged_cfg = <<>>
    /\ new_cells = <<>>

CallUnchanged == UNCHANGED <<nb, arg, ret, ret2, merged_cfg, new_cells>>

\* Faulty variant of ScanCell: a single pass that strips the local reference block
\* of a cell as soon as the cell has been scanned
ScanCellAndRewrite ==
    /\ pc = "map"
    /\ idx < Len(cells)
    /\ LET cell == cells[idx + 1]
           R == [objs |-> objs, unique_references |-> unique_references,
                 cell_local_refs |-> cell_local_refs, global_order |-> global_order]
           S == IF cell.cell_type # "markdown" THEN R
                ELSE RegisterCell(R, idx, cell.source)
       IN  /\ objs' = S.objs
           /\ unique_references' = S.unique_references
           /\ cell_local_refs' = S.cell_local_refs
           /\ global_order' = S.global_order
           /\ cells' = IF cell.cell_type # "markdown" THEN cells
                       ELSE [cells EXCEPT ![idx + 1].source =
                                remove_reference_section(cell.source)]
    /\ idx' = idx + 1
    /\ UNCHANGED <<pc, markdown_text>>
    /\ CallUnchanged

\* build_global_reference_map, one iteration of the loop over the cells
ScanCell ==
    /\ pc = "map"
    /\ idx < Len(cells)
    /\ LET cell == cells[idx + 1]
           R == [objs |-> objs, unique_references |-> unique_references,
                 cell_local_refs |-> cell_local_refs, global_order |-> global_order]
           S == IF cell.cell_type # "markdown" THEN R
                ELSE RegisterCell(R, idx, cell.source)
       IN  /\ objs' = S.objs
           /\ unique_references' = S.unique_references
           /\ cell_local_refs' = S.cell_local_refs
           /\ global_order' = S.global_order
    /\ idx' = idx + 1
    /\ UNCHANGED <<cells, pc, markdown_text>>
    /\ CallUnchanged

\* Faulty variant of AssignGlobalNumbers: the numbering starts at 0
AssignGlobalNumbersFromZero ==
    /\ pc = "map"
    /\ idx = Len(cells)
    /\ objs' = [i \in 1..Len(objs) |->
                   LET at == {g \in 1..Len(global_order) : global_order[g] = i}
                   IN  IF at = {} THEN objs[i]
                       ELSE [objs[i] EXCEPT !.global_num = Max(at) - 1]]
    /\ pc' = "rewrite"
    /\ idx' = 0
    /\ UNCHANGED <<cells, unique_references, cell_local_refs, global_order,
                   markdown_text>>
    /\ CallUnchanged

\* build_global_reference_map, the numbering after the loop
AssignGlobalNumbers ==
    /\ pc = "map"
    /\ idx = Len(cells)
    /\ objs' = [i \in 1..Len(objs) |->
                   LET at == {g \in 1..Len(global_order) : global_order[g] = i}
                   IN  IF at = {} THEN objs[i]
                       ELSE [objs[i] EXCEPT !.global_num = Max(at)]]
    /\ pc' = "rewrite"
    /\ idx' = 0
    /\ UNCHANGED <<cells, unique_references, cell_local_refs, global_order,
                   markdown_text>>
    /\ CallUnchanged

\* process_markdown_cell, step 1 (a cell that is not markdown is skipped)
UpdateCitations ==
    /\ pc = "rewrite"
    /\ idx < Len(cells)
    /\ IF cells[idx + 1].cell_type # "markdown"
       THEN /\ idx' = idx + 1
            /\ UNCHANGED <<pc, markdown_text>>
       ELSE /\ markdown_text' = update_citations_in_text(idx, cells[idx + 1].source)
            /\ pc' = "remove"
            /\ UNCHANGED idx
    /\ UNCHANGED <<cells, objs, unique_references, cell_local_refs, global_order>>
    /\ CallUnchanged

\* Faulty variant of RemoveSection: the entries of the processed cell are
\* dropped from the cell-local index once its section is removed
RemoveSectionAndForget ==
    /\ pc = "remove"
    /\ cells' = [cells EXCEPT ![idx + 1].source =
                    remove_reference_section(markdown_text)]
    /\ cell_local_refs' =
          [k \in {x \in DOMAIN cell_local_refs : x[1] # idx} |-> cell_local_refs[k]]
    /\ markdown_text' = <<>>
    /\ idx' = idx + 1
    /\ pc' = "rewrite"
    /\ UNCHANGED <<objs, unique_references, global_order>>
    /\ CallUnchanged

\* process_markdown_cell, step 2 and the assignment of the cell's source
RemoveSection ==
    /\ pc = "remove"
    /\ cells' = [cells EXCEPT ![idx + 1].source =
                    remove_reference_section(markdown_text)]
    /\ markdown_text' = <<>>
    /\ idx' = idx + 1
    /\ pc' = "rewrite"
    /\ UNCHANGED <<objs, unique_references, cell_local_refs, global_order>>
    /\ CallUnchanged

\* Faulty variant of AppendReferences: the cell is appended without the test of
\* global_order
AppendReferencesAlways ==
    /\ pc = "rewrite"
    /\ idx = Len(cells)
    /\ cells' = Append(cells, [Cell("markdown", generate_references_section)
                                  EXCEPT !.references_section = TRUE])
    /\ pc' = "done"
    /\ UNCHANGED <<objs, unique_references, cell_local_refs, global_order,
                   idx, markdown_text>>
    /\ CallUnchanged

\* process_notebook, step 3
AppendReferences ==
    /\ pc = "rewrite"
    /\ idx = Len(cells)
    /\ cells' = IF global_order # <<>>
                THEN Append(cells, [Cell("markdown", generate_references_section)
                                       EXCEPT !.references_section = TRUE])
                ELSE cells
    /\ pc' = "done"
    /\ UNCHANGED <<objs, unique_references, cell_local_refs, global_order,
                   idx, markdown_text>>
    /\ CallUnchanged

Next ==
    \/ ScanCell
    \/ AssignGlobalNumbers
    \/ UpdateCitations
    \/ RemoveSection
    \/ AppendReferences

Spec == Init /\ [][Next]_vars

----------------------------------------------------------------------------
(* Properties of process_notebook                                          *)

Range(f) == {f[x] : x \in DOMAIN f}

\* 0-based indices of the markdown cells of a cell list
MarkdownIdx(cs) == {c \in 0..(Len(cs) - 1) : cs[c + 1].cell_type = "markdown"}

\* The definitions of one cell text, one per match, by text position
DefinitionsByPosition(c, text) ==
    LET ms == DefFindIter(text, 1)
    IN  [i \in 1..Len(ms) |-> DefinitionAt(c, text, ms[i])]

\* The definitions of a cell list: cells by index, then by text position
AllDefinitions(cs) ==
    Concat([i \in 1..Len(cs) |->
               IF cs[i].cell_type = "markdown"
               THEN DefinitionsByPosition(i - 1, cs[i].source)
               ELSE <<>>])

\* The distinct elements of a sequence in the order of their first occurrence
FirstAppearance(seq) ==
    LET F[i \in 0..Len(seq)] ==
            IF i = 0 THEN <<>>
            ELSE IF seq[i] \in Range(F[i - 1]) THEN F[i - 1]
                 ELSE Append(F[i - 1], seq[i])
    IN  F[Len(seq)]

HasDefinition(cs) ==
    \E c \in MarkdownIdx(cs) : DefSearch(cs[c + 1].source, 1) # 0
HasCitation(cs) ==
    \E c \in MarkdownIdx(cs) : \E i \in 1..Len(cs[c + 1].source) :
        CITATION_PATTERN(cs[c + 1].source[i])
HasSeparator(cs) ==
    \E c \in MarkdownIdx(cs) : SectionSearch(cs[c + 1].source) # 0

MappingDone == pc \in {"rewrite", "remove", "done"}
Registry == <<objs, unique_references, cell_local_refs, global_order>>
NumbersAssigned ==
    \A g \in 1..Len(global_order) : objs[global_order[g]].global_num = g

\* C1 (as claimed): after build_global_reference_map, any two definitions of
\* the notebook whose normalized texts are equal both have their
\* (cell index, local number) key in cell_local_refs, and the two keys map
\* to the same Reference and so to the same global number.
C1_DedupBothKeysSameReference ==
    MappingDone =>
        LET defs == AllDefinitions(nb)
        IN  \A i, j \in 1..Len(defs) :
                normalize_for_dedup(defs[i].definition)
                    = normalize_for_dedup(defs[j].definition)
                => LET ki == <<defs[i].cell_index, defs[i].local_num>>
                       kj == <<defs[j].cell_index, defs[j].local_num>>
                   IN  /\ ki \in DOMAIN cell_local_refs
                       /\ kj \in DOMAIN cell_local_refs
                       /\ cell_local_refs[ki] = cell_local_refs[kj]
                       /\ objs[cell_local_refs[ki]].global_num
                            = objs[cell_local_refs[kj]].global_num

\* C2 (as claimed): after build_global_reference_map the i-th entry of
\* global_order has global number i, and the normalized texts of global_order
\* are the distinct normalized definition texts of the notebook in the order
\* of their first appearance (cells by index, definitions by text position).
C2_DenseFirstAppearanceOrder ==
    MappingDone =>
        LET defs == AllDefinitions(nb)
        IN  /\ NumbersAssigned
            /\ [g \in 1..Len(global_order) |->
                   normalize_for_dedup(objs[global_order[g]].definition)]
               = FirstAppearance([i \in 1..Len(defs) |->
                                     normalize_for_dedup(defs[i].definition)])

\* C3: update_citations_in_text turns every citation [[N]](#refK) of cell c
\* with (c, N) in cell_local_refs into [[G]](#global_refG), G the global
\* number of the Reference stored at (c, N); no other token changes, and
\* two such citations with the same N get the same result whatever their
\* anchors.
C3_CitationRewriteByLocalNumber ==
    pc = "remove" =>
        LET src == cells[idx + 1].source
        IN  /\ Len(markdown_text) = Len(src)
            /\ \A i \in 1..Len(src) :
                  /\ (src[i].t = "cit" /\ <<idx, src[i].n>> \in DOMAIN cell_local_refs)
                     => LET G == objs[cell_local_refs[<<idx, src[i].n>>]].global_num
                        IN  /\ G \in 1..Len(global_order)
                            /\ markdown_text[i] = Tok("gcit", G, G)
                  /\ src[i].t # "cit" => markdown_text[i] = src[i]
            /\ \A i, j \in 1..Len(src) :
                  (/\ src[i].t = "cit" /\ src[j].t = "cit" /\ src[i].n = src[j].n
                   /\ <<idx, src[i].n>> \in DOMAIN cell_local_refs)
                  => markdown_text[i] = markdown_text[j]

\* A citation whose anchor number differs from its visible number has been
\* rewritten through the definition with the visible number.
C3_Witness ==
    /\ pc = "remove"
    /\ \E i \in 1..Len(markdown_text) :
          LET x == cells[idx + 1].source[i]
          IN  /\ x.t = "cit"
              /\ x.n # x.k
              /\ <<idx, x.n>> \in DOMAIN cell_local_refs
              /\ <<idx, x.k>> \notin DOMAIN cell_local_refs
              /\ markdown_text[i].t = "gcit"

\* C4: a citation [[N]](#refK) of cell c with no (c, N) in cell_local_refs
\* is left as it is by update_citations_in_text, also when another cell has
\* a definition numbered N.
C4_UnresolvedCitationUnchanged ==
    pc = "remove" =>
        LET src == cells[idx + 1].source
        IN  /\ Len(markdown_text) = Len(src)
            /\ \A i \in 1..Len(src) :
                  (src[i].t = "cit" /\ <<idx, src[i].n>> \notin DOMAIN cell_local_refs)
                  => markdown_text[i] = src[i]

C4_Witness ==
    /\ pc = "remove"
    /\ \E i \in 1..Len(markdown_text) :
          LET x == cells[idx + 1].source[i]
          IN  /\ x.t = "cit"
              /\ <<idx, x.n>> \notin DOMAIN cell_local_refs
              /\ \E c \in 0..(Len(cells) - 1) : <<c, x.n>> \in DOMAIN cell_local_refs
              /\ markdown_text[i] = x

\* C5: a cell is modified only once control has left
\* build_global_reference_map with every entry of global_order numbered, and
\* the registry is updated only while every cell is still as it was passed.
C5_MapCompletesBeforeRewrite ==
    [][ /\ (cells' # cells) => (pc \in {"rewrite", "remove"} /\ NumbersAssigned)
        /\ (Registry' # Registry) => (pc = "map" /\ cells = nb /\ cells' = nb)
      ]_vars

C5_Witness ==
    /\ pc = "rewrite"
    /\ cells # nb
    /\ global_order # <<>>
    /\ NumbersAssigned

\* C6: process_notebook appends one markdown cell tagged references_section,
\* as the last cell, exactly when the notebook holds a definition; its text
\* is the rule and the heading followed by one entry
\* <a id="global_refG"></a>**[G]** <definition text> per canonical Reference,
\* each once, in increasing G; the original cells keep their positions.
C6_ReferencesCellAppended ==
    pc = "done" =>
        /\ Len(cells) = Len(nb) + (IF HasDefinition(nb) THEN 1 ELSE 0)
        /\ HasDefinition(nb) <=> global_order # <<>>
        /\ \A i \in 1..Len(nb) :
              /\ cells[i].cell_type = nb[i].cell_type
              /\ ~cells[i].references_section
              /\ cells[i].source =
                    IF nb[i].cell_type = "markdown"
                    THEN remove_reference_section(
                             update_citations_in_text(i - 1, nb[i].source))
                    ELSE nb[i].source
        /\ Cardinality(Range(global_order)) = Len(global_order)
        /\ Range(global_order) = Range(unique_references)
        /\ HasDefinition(nb) =>
              LET last == cells[Len(cells)]
              IN  /\ last.cell_type = "markdown"
                  /\ last.references_section
                  /\ last.source =
                        <<NL, NL, HR, NL, NL, H3, NL, NL>>
                        \o Concat([g \in 1..Len(global_order) |->
                                      <<Tok("ganchor", g, g), SP>>
                                      \o objs[global_order[g]].definition
                                      \o <<NL, NL>>])

\* Two canonical References, numbered 1 and 2, in the appended cell
C6_Witness ==
    /\ pc = "done"
    /\ Len(global_order) = 2
    /\ Len(cells) = Len(nb) + 1
    /\ cells[Len(cells)].references_section

\* C7 (as claimed): with no citation and no definition in any markdown cell,
\* process_notebook leaves every cell as it was and appends no cell.
C7_NoReferencesNoChange ==
    (pc = "done" /\ ~HasCitation(nb) /\ ~HasDefinition(nb)) => cells = nb

\* C7 (amended): with no citation, no definition and no explicit separator
\* (a --- line followed by a **References :** line) in any markdown cell,
\* process_notebook leaves every cell as it was and appends no cell.
C7_NoReferencesNoSeparatorNoChange ==
    (pc = "done" /\ ~HasCitation(nb) /\ ~HasDefinition(nb) /\ ~HasSeparator(nb))
        => cells = nb

C7_Witness ==
    /\ pc = "done"
    /\ ~HasCitation(nb) /\ ~HasDefinition(nb) /\ ~HasSeparator(nb)
    /\ \E c \in MarkdownIdx(nb) : nb[c + 1].source # <<>>
    /\ cells = nb

----------------------------------------------------------------------------
(* Properties of remove_reference_section                                  *)

\* Lines (1-based) that are --- and whose next non-blank line is the header
SeparatorLines(lines) ==
    {i \in 1..Len(lines) :
        /\ strip(lines[i]) = <<HR>>
        /\ \E j \in (i + 1)..Len(lines) :
              /\ strip(lines[j]) = <<HDR>>
              /\ \A m \in (i + 1)..(j - 1) : strip(lines[m]) = <<>>}

\* C8 (as claimed): when the text has a --- line followed by a
\* **References :** line, the result is the text before the first such
\* separator, right-trimmed, whatever the other strategies would cut.
C8_ExplicitSeparatorCut ==
    pc = "ret" =>
        LET lines == Split(arg)
            seps == SeparatorLines(lines)
        IN  seps # {} => ret = rstrip(Join(Slice(lines, 1, Min(seps) - 1)))

\* Position of the first token of line i (0-based) of the text
LineStart(lines, i) ==
    IF i = 0 THEN 1 ELSE Len(Join(Slice(lines, 1, i))) + 2

\* The cut point remove_reference_section chooses: the explicit separator,
\* else the bare --- line, else the first definition; 0 when there is none
CutPoint(text) ==
    LET m1 == SectionSearch(text)
        lines == Split(text)
        s2 == Strategy2Lines(lines)
        m3 == DefSearch(text, 1)
    IN  IF m1 # 0 THEN m1
        ELSE IF s2 # {} THEN LineStart(lines, Min(s2))
        ELSE m3

\* A page-break marker is the last thing before the cut point
PageBreakBeforeCut(text) ==
    LET cut == CutPoint(text)
        kept == rstrip(Slice(text, 1, cut - 1))
    IN  cut # 0 /\ kept # <<>> /\ kept[Len(kept)] = PB

\* C9: when a page-break marker immediately precedes the cut point, the
\* result is the text up to and including that marker, and nothing from the
\* cut point on is kept.
C9_PageBreakKeptBeforeCut ==
    (pc = "ret" /\ PageBreakBeforeCut(arg)) =>
        /\ ret # <<>>
        /\ ret[Len(ret)] = PB
        /\ Len(ret) < CutPoint(arg)
        /\ ret = Slice(arg, 1, Len(ret))
        /\ \A m \in (Len(ret) + 1)..(CutPoint(arg) - 1) : IsSpace(arg[m])

\* The marker precedes the explicit separator and is kept
C9_Witness ==
    /\ pc = "ret"
    /\ PageBreakBeforeCut(arg)
    /\ SectionSearch(arg) # 0
    /\ ret # <<>>
    /\ ret[Len(ret)] = PB
    /\ Len(ret) < Len(arg)

----------------------------------------------------------------------------
(* Properties of normalize_for_dedup                                       *)

\* C10 (as claimed): normalize_for_dedup is idempotent.
C10_NormalizeIdempotent ==
    pc = "ret2" => ret2 = ret

----------------------------------------------------------------------------
(* build_global_reference_map on two definitions, one of them the other    *)
(* with a trailing parenthetical note                                      *)

MaxBaseLen == 3

BaseAlphabet == {Ch("a"), Ch("."), Ch("("), Ch(")"), SP}
\* Definition texts that begin with a letter
BaseTexts ==
    {t \in SeqsUpTo(BaseAlphabet, MaxBaseLen) : t # <<>> /\ t[1] = Ch("a")}

\* Trailing notes: " (b)", "(b)." and " (b) ."
TrailingNotes ==
    { <<SP, Ch("("), Ch("b"), Ch(")")>>,
      <<Ch("("), Ch("b"), Ch(")"), Ch(".")>>,
      <<SP, Ch("("), Ch("b"), Ch(")"), SP, Ch(".")>> }

\* The two definitions in one cell or in two cells, in either order
PairNotebooks ==
    UNION {
        LET plain == <<NL, Def(1, 1), SP>> \o t
            noted == <<NL, Def(2, 2), SP>> \o t \o note
        IN  { <<Cell("markdown", plain \o noted)>>,
              <<Cell("markdown", noted \o plain)>>,
              <<Cell("markdown", plain), Cell("markdown", noted)>>,
              <<Cell("markdown", noted), Cell("markdown", plain)>> }
        : t \in BaseTexts, note \in TrailingNotes }

InitPair ==
    /\ nb \in PairNotebooks
    /\ cells = nb
    /\ objs = <<>>
    /\ unique_references = <<>>
    /\ cell_local_refs = <<>>
    /\ global_order = <<>>
    /\ pc = "map"
    /\ idx = 0
    /\ markdown_text = <<>>
    /\ arg = <<>>
    /\ ret = <<>>
    /\ ret2 = <<>>
    /\ merged_cfg = <<>>
    /\ new_cells = <<>>

SpecPair == InitPair /\ [][Next]_vars

\* Whether text n is a parenthetical note that may end a definition:
\* blanks, "(", one or more characters other than ")", ")", then at most one
\* "." possibly surrounded by blanks
IsTrailingNote(n) ==
    \E o, c \in 1..Len(n) :
        /\ o + 1 < c
        /\ \A j \in 1..(o - 1) : IsSpace(n[j])
        /\ n[o] = Ch("(")
        /\ \A j \in (o + 1)..(c - 1) : n[j] # Ch(")")
        /\ n[c] = Ch(")")
        /\ Cardinality({j \in (c + 1)..Len(n) : ~IsSpace(n[j])}) <= 1
        /\ \A j \in (c + 1)..Len(n) : IsSpace(n[j]) \/ n[j] = Ch(".")

\* Text u is text t with a trailing parenthetical note added
CarriesTrailingNote(t, u) ==
    /\ Len(u) > Len(t)
    /\ Slice(u, 1, Len(t)) = t
    /\ IsTrailingNote(Slice(u, Len(t) + 1, Len(u)))

\* C11 (as claimed): two definitions whose texts differ only in that one
\* carries a trailing parenthetical note have equal normalized forms, and
\* after build_global_reference_map their keys map to one canonical Reference.
C11_TrailingNoteDeduplicated ==
    MappingDone =>
        LET defs == AllDefinitions(nb)
        IN  \A i, j \in 1..Len(defs) :
                CarriesTrailingNote(defs[i].definition, defs[j].definition)
                => LET ki == <<defs[i].cell_index, defs[i].local_num>>
                       kj == <<defs[j].cell_index, defs[j].local_num>>
                   IN  /\ normalize_for_dedup(defs[i].definition)
                            = normalize_for_dedup(defs[j].definition)
                       /\ ki \in DOMAIN cell_local_refs
                       /\ kj \in DOMAIN cell_local_refs
                       /\ cell_local_refs[ki] = cell_local_refs[kj]

----------------------------------------------------------------------------
(* Further properties of build_global_reference_map                        *)

\* C12 (as claimed): the canonical Reference of a normalized text keeps the
\* raw definition text and the cell index of the first definition of the
\* notebook with that normalized text (cells by index, definitions by text
\* position).
C12_CanonicalKeepsFirstOccurrence ==
    MappingDone =>
        LET defs == AllDefinitions(nb)
        IN  \A g \in 1..Len(global_order) :
                LET r == objs[global_order[g]]
                    same == {i \in 1..Len(defs) :
                                normalize_for_dedup(defs[i].definition)
                                    = normalize_for_dedup(r.definition)}
                IN  /\ same # {}
                    /\ r.definition = defs[Min(same)].definition
                    /\ r.cell_index = defs[Min(same)].cell_index

----------------------------------------------------------------------------
(* Function-level specification: extract_references_from_cell applied to   *)
(* a cell text, then remove_reference_section applied to the same text.    *)

MaxExtLen == 5

ExtAlphabet == {Ch("a"), SP, NL, Def(1, 1), Def(2, 2)}
ExtTexts == SeqsUpTo(ExtAlphabet, MaxExtLen)

InitExtract ==
    /\ NoNotebook
    /\ arg \in ExtTexts
    /\ ret = <<>>
    /\ ret2 = <<>>
    /\ pc = "call"

Extract ==
    /\ pc = "call"
    /\ ret' = extract_references_from_cell(0, arg)
    /\ pc' = "ret"
    /\ UNCHANGED <<arg, ret2>>
    /\ NotebookUnchanged

RemoveAfterExtract ==
    /\ pc = "ret"
    /\ ret2' = remove_reference_section(arg)
    /\ pc' = "ret2"
    /\ UNCHANGED <<arg, ret>>
    /\ NotebookUnchanged

NextExtract == Extract \/ RemoveAfterExtract

SpecExtract == InitExtract /\ [][NextExtract]_vars

----------------------------------------------------------------------------
(* Properties of extract_references_from_cell                              *)

\* The positions of a text where the definition pattern matches
DefinitionStarts(text) == {p \in 1..Len(text) : DefBodyStart(text, p) # 0}

\* The text a definition at p is claimed to have: from just after its [N]
\* to just before the next definition start, or to the end, trimmed
ClaimedDefinitionText(text, p) ==
    LET later == {q \in DefinitionStarts(text) : q > p}
        stop == IF later = {} THEN Len(text) ELSE Min(later) - 1
    IN  strip(Slice(text, p + 1, stop))

\* C13 (as claimed): every Reference extract_references_from_cell returns
\* is that of a definition start of the text, with the text from just after
\* its [N] to just before the next definition start (or to the end of the
\* text), trimmed; and a definition start whose anchor no other definition
\* start of the cell carries is among the returned References.
C13_DefinitionTextSpan ==
    pc = "ret" =>
        LET starts == DefinitionStarts(arg)
            Ref(p) == Reference(arg[p].k, arg[p].n, ClaimedDefinitionText(arg, p), 0)
        IN  /\ \A i \in 1..Len(ret) : \E p \in starts : ret[i] = Ref(p)
            /\ \A p \in starts :
                  (\A q \in starts : arg[q].k = arg[p].k => q = p)
                  => \E i \in 1..Len(ret) : ret[i] = Ref(p)

\* Whether position p begins a line of the text
AtLineStart(text, p) == p = 1 \/ text[p - 1] = NL

\* C14 (as claimed): a definition is recognised only where its markup
\* begins a line: every extracted Reference comes from a definition markup
\* at the start of a line, and a text without separator whose definition
\* markups all stand in the middle of a line is left whole by
\* remove_reference_section.
C14_DefinitionOnlyAtLineStart ==
    /\ pc \in {"ret", "ret2"} =>
          \A i \in 1..Len(ret) :
              \E p \in 1..Len(arg) :
                  /\ arg[p] = Def(ret[i].local_id, ret[i].local_num)
                  /\ AtLineStart(arg, p)
    /\ pc = "ret2" =>
          ((\A p \in 1..Len(arg) : arg[p].t = "def" => ~AtLineStart(arg, p))
           => ret2 = arg)

----------------------------------------------------------------------------
(* Properties of the rewriting phase                                       *)

\* C15: from the end of build_global_reference_map on, no step of
\* process_notebook (update_citations_in_text, remove_reference_section,
\* the assignment of a cell's source, generate_references_section and the
\* append) changes the unique-reference map, the cell-local index, the
\* global order or a Reference, its global number included.
C15_RegistryReadOnlyWhileRewriting ==
    [][ (pc \in {"rewrite", "remove"}) => (Registry' = Registry) ]_vars

\* The run has ended with a citation rewritten, a reference block removed
\* and the registry still populated
C15_Witness ==
    /\ pc = "done"
    /\ global_order # <<>>
    /\ cell_local_refs # <<>>
    /\ \E c \in 1..Len(nb) :
          /\ Len(cells[c].source) < Len(nb[c].source)
          /\ \E i \in 1..Len(cells[c].source) : cells[c].source[i].t = "gcit"

\* C16: a citation rewritten by update_citations_in_text and an anchor
\* written by generate_references_section are matched neither by the
\* citation pattern nor by the definition pattern, and applying
\* update_citations_in_text again to the rewritten text changes nothing.
C16_GlobalNamespaceStable ==
    /\ pc = "remove" =>
          LET src == cells[idx + 1].source
          IN  /\ \A i \in 1..Len(markdown_text) :
                    markdown_text[i] # src[i]
                    => /\ ~CITATION_PATTERN(markdown_text[i])
                       /\ DefBodyStart(markdown_text, i) = 0
              /\ update_citations_in_text(idx, markdown_text) = markdown_text
    /\ (pc = "done" /\ global_order # <<>>) =>
          LET last == cells[Len(cells)].source
              anchors == {i \in 1..Len(last) : last[i].t = "ganchor"}
          IN  /\ Cardinality(anchors) = Len(global_order)
              /\ \A i \in anchors :
                    /\ ~CITATION_PATTERN(last[i])
                    /\ DefBodyStart(last, i) = 0

\* A citation has been rewritten to a number other than its local one
C16_Witness ==
    /\ pc = "remove"
    /\ \E i \in 1..Len(markdown_text) :
          /\ cells[idx + 1].source[i].t = "cit"
          /\ markdown_text[i].t = "gcit"
          /\ markdown_text[i].n # cells[idx + 1].source[i].n

----------------------------------------------------------------------------
(* ReferenceManager.get_local_to_global_map                                *)

\* The attributes ReferenceManager.__init__ sets on the instance
Self ==
    [unique_references |-> unique_references,
     cell_local_refs |-> cell_local_refs,
     global_order |-> global_order]

\* Outcome of an evaluation: a value, or the exception that ended it
Returned(value) == [raised |-> "none", value |-> value]
Raised(exception) == [raised |-> exception, value |-> <<>>]

\* self.<name>
GetAttr(name) ==
    IF name \in DOMAIN Self THEN Returned(Self[name]) ELSE Raised("AttributeError")

get_local_to_global_map(cell_index) ==
    LET cell_references == GetAttr("cell_references")
        references == GetAttr("references")
    IN  IF cell_references.raised # "none" THEN cell_references
        ELSE IF cell_index \notin DOMAIN cell_references.value THEN Returned(<<>>)
        ELSE IF cell_references.value[cell_index] = {} THEN Returned(<<>>)
        ELSE IF references.raised # "none" THEN references
        ELSE LET ids == cell_references.value[cell_index] \cap DOMAIN references.value
                 nums == {references.value[id].local_num : id \in ids}
             IN  Returned([n \in nums |->
                     LET id == CHOOSE x \in ids : references.value[x].local_num = n
                     IN  references.value[id].global_num])

\* A caller asks for the map of one cell once build_global_reference_map
\* has returned
GetLocalToGlobalMap ==
    /\ pc = "rewrite"
    /\ idx = 0
    /\ \E cell_index \in 0..Len(cells) :
          /\ arg' = cell_index
          /\ ret' = get_local_to_global_map(cell_index)
    /\ pc' = "queried"
    /\ UNCHANGED <<nb, cells, objs, unique_references, cell_local_refs,
                   global_order, idx, markdown_text, ret2, merged_cfg, new_cells>>

NextQuery == ScanCell \/ AssignGlobalNumbers \/ GetLocalToGlobalMap

SpecQuery == Init /\ [][NextQuery]_vars

\* C19 (as claimed): get_local_to_global_map(cell_index), called after
\* build_global_reference_map, returns without an error the map from each
\* local number defined in the cell to the global number of its Reference,
\* the empty map for a cell without references.
C19_LocalToGlobalMapReturned ==
    pc = "queried" =>
        /\ ret.raised = "none"
        /\ LET nums == {k[2] : k \in {x \in DOMAIN cell_local_refs : x[1] = arg}}
           IN  ret.value = [n \in nums |-> objs[cell_local_refs[<<arg, n>>]].global_num]

----------------------------------------------------------------------------
(* Properties of remove_reference_section: the bare rule                   *)

\* Whether the definition pattern matches the text at a position of line j
\* (1-based) of its lines
HasDefinitionStart(text, lines, j) ==
    \E p \in LineStart(lines, j - 1)..(LineStart(lines, j - 1) + Len(lines[j]) - 1) :
        DefBodyStart(text, p) # 0

\* Lines (1-based) that are --- with a definition start on one of the next
\* 4 lines
RuleLinesNearDefinition(lines) ==
    {i \in 1..Len(lines) :
        /\ strip(lines[i]) = <<HR>>
        /\ \E j \in (i + 1)..Min({i + 4, Len(lines)}) :
              HasDefinitionStart(Join(lines), lines, j)}

\* C20 (as claimed): without explicit separator, the result is the lines
\* before the first --- line that has a definition start on one of the next
\* 4 lines, right-trimmed; when no --- line has one (the nearest definition
\* start is 5 or more lines below, or there is none) the rule is not used:
\* the text is cut at its first definition start, or returned whole.
C20_BareRuleNearDefinition ==
    pc = "ret" =>
        LET lines == Split(arg)
            near == RuleLinesNearDefinition(lines)
            first == DefSearch(arg, 1)
        IN  SeparatorLines(lines) = {} =>
                ret = IF near # {} THEN rstrip(Join(Slice(lines, 1, Min(near) - 1)))
                      ELSE IF first # 0 THEN rstrip(Slice(arg, 1, first - 1))
                      ELSE arg

\* Neither separator form matches: the explicit separator pattern finds
\* nothing and no --- line has a definition start in its window
NoSeparatorForm(text) ==
    SectionSearch(text) = 0 /\ Strategy2Lines(Split(text)) = {}

\* C21: when neither separator form matches and the text has a definition
\* start, the result is the text before the first definition start,
\* right-trimmed, and holds no definition start any more.  A text without a
\* --- line followed by the header line or by a definition start on one of
\* its next 4 lines is such a text.
C21_CutAtFirstDefinition ==
    pc = "ret" =>
        LET lines == Split(arg)
            first == DefSearch(arg, 1)
        IN  /\ (SeparatorLines(lines) = {} /\ RuleLinesNearDefinition(lines) = {})
                  => NoSeparatorForm(arg)
            /\ (NoSeparatorForm(arg) /\ first # 0) =>
                  /\ ret = rstrip(Slice(arg, 1, first - 1))
                  /\ Len(ret) < first
                  /\ DefSearch(ret, 1) = 0

\* Text, then whitespace, then the first definition: the whitespace goes too
C21_Witness ==
    /\ pc = "ret"
    /\ NoSeparatorForm(arg)
    /\ DefSearch(arg, 1) > 2
    /\ IsSpace(arg[DefSearch(arg, 1) - 1])
    /\ ret # <<>>
    /\ Len(ret) < DefSearch(arg, 1) - 1
    /\ ret = Slice(arg, 1, Len(ret))

\* C28: remove_reference_section returns its input unchanged or a prefix of
\* its input without trailing whitespace: the retained text is the input's
\* own text, token for token, and only whitespace is dropped between its
\* end and the cut.
C28_ResultIsTrimmedPrefix ==
    pc = "ret" =>
        \/ ret = arg
        \/ /\ Len(ret) < Len(arg)
           /\ ret = Slice(arg, 1, Len(ret))
           /\ ret = rstrip(ret)
           /\ \E n \in Len(ret)..Len(arg) :
                 /\ ret = rstrip(Slice(arg, 1, n))
                 /\ n + 1 = CutPoint(arg)

\* Two lines are kept, and whitespace before the cut is dropped
C28_Witness ==
    /\ pc = "ret"
    /\ ret # arg
    /\ \E i \in 2..(Len(ret) - 1) : ret[i] = NL
    /\ Len(ret) + 1 < CutPoint(arg)
    /\ ret = Slice(arg, 1, Len(ret))

----------------------------------------------------------------------------
(* utils/cell_operations.py.  The source of a code cell is token text too: *)
(*   import    one import statement (import math, from os import path)     *)
(*   comment   one comment (# ...)                                         *)
(*   stmt      one other statement (x = 1)                                 *)
(*   omitted   the separator line apply_partial_code writes, n the count   *)
(*   pbdiv     <div style="page-break-after: always;"></div>               *)

IMPORT == Tok("import", 0, 0)
COMMENT == Tok("comment", 0, 0)
STMT == Tok("stmt", 0, 0)
Omitted(count) == Tok("omitted", count, 0)
PBDIV == Tok("pbdiv", 0, 0)

\* len() of one token and of a text, in characters (numbers of one digit)
TokenWidth(x) ==
    CASE x.t \in {"sp", "nl"} -> 1
      [] x.t = "hr" -> 3
      [] x.t = "hdr" -> 16
      [] x.t = "pb" -> 19
      [] x.t = "h3" -> 14
      [] x.t = "def" -> 20
      [] x.t = "cit" -> 12
      [] x.t = "gcit" -> 19
      [] x.t = "ganchor" -> 31
      [] x.t = "import" -> 11
      [] x.t = "comment" -> 3
      [] x.t = "stmt" -> 5
      [] x.t = "omitted" -> 27
      [] x.t = "pbdiv" -> 45
      [] OTHER -> 1

RECURSIVE Width(_)
Width(text) == IF text = <<>> THEN 0 ELSE TokenWidth(Head(text)) + Width(Tail(text))

\* str.splitlines(): as split('\n') without the empty piece after a final
\* newline; no line for the empty text
splitlines(text) ==
    IF text = <<>> THEN <<>>
    ELSE IF text[Len(text)] = NL THEN Split(Slice(text, 1, Len(text) - 1))
    ELSE Split(text)

tags_of_cell(cell) == {cell.tags[i] : i \in 1..Len(cell.tags)}

should_remove_cell(cell, config) ==
    tags_of_cell(cell) \cap config.remove_cells_with_tag # {}

should_hide_code(cell, config) ==
    LET tags == tags_of_cell(cell)
    IN  IF cell.cell_type # "code" THEN FALSE
        ELSE IF tags \cap config.partial_code_with_tag # {} THEN FALSE
        ELSE IF tags \cap config.hide_code_with_tag # {} THEN TRUE
        ELSE config.hide_code_by_default /\ tags \cap config.show_outputs_with_tag = {}

should_hide_output(cell, config) ==
    /\ cell.cell_type = "code"
    /\ tags_of_cell(cell) \cap config.hide_output_with_tag # {}

should_partial_code(cell, config) ==
    LET tags == tags_of_cell(cell)
    IN  IF cell.cell_type # "code" THEN FALSE
        ELSE IF tags \cap config.partial_code_with_tag # {} THEN TRUE
        ELSE config.partial_code_by_default /\ tags \cap config.show_outputs_with_tag = {}

\* cell.metadata.setdefault("smart_exporter", {})[key] = value
SetMeta(cell, key, value) ==
    [cell EXCEPT !.smart_exporter = DictSet(@, key, value)]

apply_partial_code(cell, config) ==
    LET head_lines == config.partial_code_head_lines
        tail_lines == config.partial_code_tail_lines
        lines == splitlines(cell.source)
        total == Len(lines)
        omitted_count == total - head_lines - tail_lines
        head == Slice(lines, 1, Min({head_lines, total}))
        tail == Slice(lines, Max({total - tail_lines + 1, 1}), total)
    IN  IF cell.cell_type # "code" \/ cell.source = <<>> THEN cell
        ELSE IF total <= head_lines + tail_lines THEN cell
        ELSE SetMeta(SetMeta([cell EXCEPT !.source =
                                 Join(head) \o <<NL, Omitted(omitted_count), NL>> \o Join(tail)],
                             "partial_code", TRUE),
                     "lines_omitted", omitted_count)

\* The import pattern r"^\s*(import\s+\w+|from\s+\w+[\.\w]*\s+import\b)"
\* matched against a stripped line
IsImportLine(stripped) == stripped # <<>> /\ stripped[1] = IMPORT
\* stripped.startswith("#")
IsCommentLine(stripped) == stripped # <<>> /\ stripped[1] = COMMENT

is_import_only_cell(cell) ==
    LET all == splitlines(cell.source)
        lines == SelectSeq(all, LAMBDA ln : strip(ln) # <<>>)
    IN  IF cell.cell_type # "code" THEN FALSE
        ELSE IF lines = <<>> THEN FALSE
        ELSE \A i \in 1..Len(lines) :
                IsCommentLine(strip(lines[i])) \/ IsImportLine(strip(lines[i]))

hide_leading_imports(cell, config) ==
    LET lines == splitlines(cell.source)
        \* 1-based positions of the lines that are real code
        code == {i \in 1..Len(lines) :
                    LET stripped == strip(lines[i])
                    IN  /\ stripped # <<>>
                        /\ ~IsCommentLine(stripped)
                        /\ ~IsImportLine(stripped)}
    IN  IF cell.cell_type # "code" \/ cell.source = <<>> THEN cell
        ELSE IF ~config.hide_leading_imports THEN cell
        ELSE IF code = {} \/ Min(code) = 1 THEN cell
        ELSE SetMeta([cell EXCEPT !.source = Join(Slice(lines, Min(code), Len(lines)))],
                     "leading_imports_hidden", TRUE)

\* textwrap.wrap(combined, width, break_long_words=False,
\* break_on_hyphens=False) for a text of at most width characters, which
\* every paragraph of the model is: the text comes back as one line
wrap(combined, width) == <<combined>>

\* The paragraphs and blank lines of reflow_markdown_cell, line by line;
\* paragraph is the sequence of lines gathered since the last flush
RECURSIVE ReflowLines(_, _, _)
ReflowLines(lines, paragraph, max_len) ==
    LET flushed == IF paragraph = <<>> THEN <<>>
                   ELSE wrap(Slice(Concat([i \in 1..Len(paragraph) |->
                                               <<SP>> \o strip(paragraph[i])]),
                                   2, Len(Concat([i \in 1..Len(paragraph) |->
                                               <<SP>> \o strip(paragraph[i])]))),
                             max_len)
    IN  IF lines = <<>> THEN flushed
        ELSE IF strip(Head(lines)) = <<>>
        THEN flushed \o <<<<>>>> \o ReflowLines(Tail(lines), <<>>, max_len)
        ELSE ReflowLines(Tail(lines), Append(paragraph, Head(lines)), max_len)

reflow_markdown_cell(md_text, config) ==
    Join(ReflowLines(splitlines(md_text), <<>>, config.max_line_length))

mark_cell_with_long_lines(cell, config) ==
    LET lines == splitlines(cell.source)
    IN  /\ cell.cell_type = "code"
        /\ \E i \in 1..Len(lines) : Width(lines[i]) > config.long_line_threshold

----------------------------------------------------------------------------
(* preprocessor.py: preprocess_notebook.  The cells of the model carry no  *)
(* outputs, and the notebook has no smart_exporter metadata of its own, so *)
(* merged_cfg is the configuration that was passed.                        *)

\* _mark_hidden(cell, reason)
MarkHidden(cell, reason) ==
    LET marked == SetMeta(cell, "hidden_reason", reason)
        tags1 == IF "hidden" \in tags_of_cell(marked) THEN marked.tags
                 ELSE Append(marked.tags, "hidden")
        tags2 == IF "remove_input" \in {tags1[i] : i \in 1..Len(tags1)} THEN tags1
                 ELSE Append(tags1, "remove_input")
    IN  [marked EXCEPT !.tags = tags2]

\* cell.source.replace(page_break_marker, '<div ...></div>')
ReplacePageBreaks(text, marker) ==
    [i \in 1..Len(text) |-> IF text[i] = marker THEN PBDIV ELSE text[i]]

\* Lines 53-60: a code cell holding only imports is marked hidden
MarkImportOnly(cell, config) ==
    IF config.hide_import_only_cells /\ cell.cell_type = "code"
       /\ is_import_only_cell(cell)
    THEN MarkHidden(cell, "import_only")
    ELSE cell

\* Lines 63-64
HideLeadingImports(cell, config) ==
    IF cell.cell_type = "code" /\ config.hide_leading_imports
    THEN hide_leading_imports(cell, config)
    ELSE cell

\* Lines 67-68
PartialCode(cell, config) ==
    IF cell.cell_type = "code" /\ should_partial_code(cell, config)
    THEN apply_partial_code(cell, config)
    ELSE cell

\* Lines 70-73: the code is left intact, the cell is marked hidden
MarkHideCode(cell, config) ==
    IF cell.cell_type = "code" /\ should_hide_code(cell, config)
    THEN MarkHidden(cell, "hide_code_rule")
    ELSE cell

\* Lines 76-82, for a cell without outputs
HideOutput(cell, config) ==
    IF cell.cell_type = "code" /\ should_hide_output(cell, config)
    THEN SetMeta(cell, "output_hidden", TRUE)
    ELSE cell

\* Lines 101-102
ReflowMarkdown(cell, config) ==
    IF cell.cell_type = "markdown" /\ config.reflow_markdown
    THEN [cell EXCEPT !.source = reflow_markdown_cell(cell.source, config)]
    ELSE cell

\* Lines 105-112
PageBreaks(cell, config) ==
    IF cell.cell_type = "markdown"
       /\ \E i \in 1..Len(cell.source) : cell.source[i] = config.page_break_marker
    THEN [cell EXCEPT !.source =
             ReplacePageBreaks(cell.source, config.page_break_marker)]
    ELSE cell

\* Lines 114-116
LongLines(cell, config) ==
    IF cell.cell_type = "code" /\ config.detect_long_code_lines
       /\ mark_cell_with_long_lines(cell, config)
    THEN SetMeta(cell, "long_lines", TRUE)
    ELSE cell

\* The body of the loop over notebook.cells for a cell that is kept
PreprocessCell(cell, config) ==
    LongLines(PageBreaks(ReflowMarkdown(HideOutput(MarkHideCode(PartialCode(
        HideLeadingImports(MarkImportOnly(cell, config), config),
        config), config), config), config), config), config)

MaxPreCells == 2

\* DEFAULT_CONFIG of config.py, the keys preprocess_notebook reads
DefaultConfig ==
    [hide_code_by_default |-> FALSE,
     partial_code_by_default |-> FALSE,
     remove_cells_with_tag |-> {"remove"},
     hide_code_with_tag |-> {"hide_code"},
     hide_output_with_tag |-> {"hide_output"},
     show_outputs_with_tag |-> {"show_output"},
     partial_code_with_tag |-> {"partial_code"},
     reflow_markdown |-> TRUE,
     max_line_length |-> 120,
     detect_long_code_lines |-> TRUE,
     long_line_threshold |-> 100,
     hide_import_only_cells |-> TRUE,
     hide_leading_imports |-> TRUE,
     page_break_marker |-> PB,
     partial_code_head_lines |-> 2,
     partial_code_tail_lines |-> 2,
     centralize_references |-> TRUE]

\* Configurations: the defaults, with the reference consolidation, the
\* markdown reflow and the removal by tag each on or off
Configs ==
    {[DefaultConfig EXCEPT !.centralize_references = c,
                           !.reflow_markdown = r,
                           !.remove_cells_with_tag = t] :
        c \in BOOLEAN, r \in BOOLEAN, t \in {{}, {"remove"}}}

PreMarkdownSources ==
    { <<Ch("a")>>,
      <<Ch("a"), NL, Ch("a"), SP, PB>>,
      <<Ch("a"), NL, HR, NL, HDR, NL>>,
      <<Cit(1, 1)>>,
      <<Cit(1, 1), NL, Def(1, 1), SP, Ch("a"), Ch(".")>>,
      <<Cit(1, 1), NL, Def(1, 1), SP, Ch("b"), Ch(".")>> }
PreCodeSources ==
    { <<IMPORT>>, <<IMPORT, NL, STMT>>,
      <<STMT, NL, STMT, NL, STMT, NL, STMT, NL, STMT>> }

PreCells ==
    {[Cell("markdown", src) EXCEPT !.tags = tags] :
        src \in PreMarkdownSources, tags \in {<<>>, <<"remove">>}}
    \cup {[Cell("code", src) EXCEPT !.tags = tags] :
        src \in PreCodeSources, tags \in {<<>>, <<"hide_code">>, <<"partial_code">>}}

PreNotebooks == UNION {[1..n -> PreCells] : n \in 1..MaxPreCells}

InitPre ==
    /\ nb \in PreNotebooks
    /\ merged_cfg \in Configs
    /\ \A i \in 1..Len(nb) : Width(nb[i].source) <= merged_cfg.max_line_length
    /\ cells = nb
    /\ new_cells = <<>>
    /\ objs = <<>>
    /\ unique_references = <<>>
    /\ cell_local_refs = <<>>
    /\ global_order = <<>>
    /\ pc = "preprocess"
    /\ idx = 0
    /\ markdown_text = <<>>
    /\ arg = <<>>
    /\ ret = <<>>
    /\ ret2 = <<>>

PreUnchanged ==
    UNCHANGED <<nb, objs, unique_references, cell_local_refs, global_order,
                markdown_text, arg, ret, ret2, merged_cfg>>

\* Faulty variant of StartPreprocess: the cells with a removal tag are dropped
\* before the references are consolidated
StartPreprocessFilteringFirst ==
    /\ pc = "preprocess"
    /\ pc' = IF merged_cfg.centralize_references THEN "map" ELSE "cells"
    /\ idx' = 0
    /\ cells' = SelectSeq(cells, LAMBDA c : ~should_remove_cell(c, merged_cfg))
    /\ UNCHANGED new_cells
    /\ PreUnchanged

\* Lines 44-46: the references are consolidated first, when configured
StartPreprocess ==
    /\ pc = "preprocess"
    /\ pc' = IF merged_cfg.centralize_references THEN "map" ELSE "cells"
    /\ idx' = 0
    /\ UNCHANGED <<cells, new_cells>>
    /\ PreUnchanged

\* process_notebook has returned: the loop over notebook.cells begins
ReferencesDone ==
    /\ pc = "done"
    /\ pc' = "cells"
    /\ idx' = 0
    /\ UNCHANGED <<cells, new_cells>>
    /\ PreUnchanged

\* Faulty variant of ProcessCell: the removal tags are ignored
ProcessCellKeepingTagged ==
    /\ pc = "cells"
    /\ idx < Len(cells)
    /\ LET processed == PreprocessCell(cells[idx + 1], merged_cfg)
       IN  /\ cells' = [cells EXCEPT ![idx + 1] = processed]
           /\ new_cells' = Append(new_cells, processed)
    /\ idx' = idx + 1
    /\ UNCHANGED pc
    /\ PreUnchanged

\* Lines 49-118: one iteration of the loop
ProcessCell ==
    /\ pc = "cells"
    /\ idx < Len(cells)
    /\ LET cell == cells[idx + 1]
       IN  IF should_remove_cell(cell, merged_cfg)
           THEN UNCHANGED <<cells, new_cells>>
           ELSE LET processed == PreprocessCell(cell, merged_cfg)
                IN  /\ cells' = [cells EXCEPT ![idx + 1] = processed]
                    /\ new_cells' = Append(new_cells, processed)
    /\ idx' = idx + 1
    /\ UNCHANGED pc
    /\ PreUnchanged

\* Lines 120-122: notebook.cells = new_cells; return notebook
ReturnNotebook ==
    /\ pc = "cells"
    /\ idx = Len(cells)
    /\ cells' = new_cells
    /\ pc' = "returned"
    /\ UNCHANGED <<idx, new_cells>>
    /\ PreUnchanged

NextPre ==
    \/ StartPreprocess
    \/ Next
    \/ ReferencesDone
    \/ ProcessCell
    \/ ReturnNotebook

SpecPre == InitPre /\ [][NextPre]_vars

----------------------------------------------------------------------------
(* Properties of preprocess_notebook                                       *)

\* The cells of a cell list that carry no tag of remove_cells_with_tag
Kept(cs, config) == SelectSeq(cs, LAMBDA c : ~should_remove_cell(c, config))

IsPrefix(s, t) == Len(s) <= Len(t) /\ SubSeq(t, 1, Len(s)) = s

\* A code cell the configuration hides: import-only with
\* hide_import_only_cells enabled, or tagged with a tag of hide_code_with_tag
HiddenByConfig(cell, config) ==
    /\ cell.cell_type = "code"
    /\ \/ config.hide_import_only_cells /\ is_import_only_cell(cell)
       \/ tags_of_cell(cell) \cap config.hide_code_with_tag # {}

\* C17 (as claimed): after preprocess_notebook, every kept code cell that is
\* import-only (hide_import_only_cells enabled) or tagged with a tag of
\* hide_code_with_tag has an empty source.
C17_HiddenCodeHasEmptySource ==
    pc = "returned" =>
        LET kept == Kept(nb, merged_cfg)
        IN  \A j \in 1..Len(kept) :
                (j <= Len(cells) /\ HiddenByConfig(kept[j], merged_cfg))
                    => cells[j].source = <<>>

\* The result holds no cell with a removal tag, and holds the kept cells of
\* the input in their original order (same type, their tags first)
RemovedAndOrdered ==
    LET kept == Kept(nb, merged_cfg)
    IN  /\ \A j \in 1..Len(cells) : ~should_remove_cell(cells[j], merged_cfg)
        /\ Len(cells) >= Len(kept)
        /\ Len(cells) <= Len(kept) + 1
        /\ \A j \in 1..Len(kept) :
              /\ cells[j].cell_type = kept[j].cell_type
              /\ IsPrefix(kept[j].tags, cells[j].tags)
              /\ ~cells[j].references_section

\* C18 (as claimed): preprocess_notebook omits every cell carrying a tag of
\* remove_cells_with_tag and keeps the others in their original order; for a
\* notebook without reference definitions no references cell is added and
\* the text of every kept markdown cell is unchanged.
C18_RemoveByTagKeepsOthersUnchanged ==
    pc = "returned" =>
        LET kept == Kept(nb, merged_cfg)
        IN  /\ RemovedAndOrdered
            /\ ~HasDefinition(nb) =>
                  /\ Len(cells) = Len(kept)
                  /\ \A j \in 1..Len(kept) :
                        kept[j].cell_type = "markdown"
                            => cells[j].source = kept[j].source

\* A markdown text that no step of the pipeline is configured to rewrite:
\* reflow is off, and the text holds neither the page-break marker nor an
\* explicit separator
LeftAlone(text, config) ==
    /\ ~config.reflow_markdown
    /\ \A i \in 1..Len(text) : text[i] # config.page_break_marker
    /\ SectionSearch(text) = 0

\* C18 (amended): preprocess_notebook omits every cell carrying a tag of
\* remove_cells_with_tag and keeps the others in their original order; for a
\* notebook without reference definitions no references cell is added, and
\* the text of a kept markdown cell is unchanged when reflow_markdown is off
\* and the text holds neither the page-break marker nor an explicit
\* separator (a --- line followed by a **References :** line).
C18_RemoveByTagKeepsOthers ==
    pc = "returned" =>
        LET kept == Kept(nb, merged_cfg)
        IN  /\ RemovedAndOrdered
            /\ ~HasDefinition(nb) =>
                  /\ Len(cells) = Len(kept)
                  /\ \A j \in 1..Len(kept) :
                        (kept[j].cell_type = "markdown"
                         /\ LeftAlone(kept[j].source, merged_cfg))
                            => cells[j].source = kept[j].source

C18_Witness ==
    /\ pc = "returned"
    /\ ~HasDefinition(nb)
    /\ merged_cfg.centralize_references
    /\ Len(Kept(nb, merged_cfg)) < Len(nb)
    /\ Len(cells) = Len(Kept(nb, merged_cfg))
    /\ \E j \in 1..Len(cells) :
          /\ cells[j].cell_type = "markdown"
          /\ LeftAlone(Kept(nb, merged_cfg)[j].source, merged_cfg)
          /\ cells[j].source # <<>>
          /\ cells[j].source = Kept(nb, merged_cfg)[j].source

----------------------------------------------------------------------------
(* Further properties of process_notebook                                  *)

\* The rewritten citations of a cell list, as <<cell, position>> pairs
RewrittenCitations(cs) ==
    {w \in UNION {{<<c, i>> : i \in 1..Len(cs[c].source)} : c \in 1..Len(cs)} :
        cs[w[1]].source[w[2]].t = "gcit"}

\* The positions of the references cell that hold the anchor global_ref<g>
AnchorsOf(refs_cell, g) ==
    {i \in 1..Len(refs_cell.source) :
        refs_cell.source[i].t = "ganchor" /\ refs_cell.source[i].k = g}

\* C22: after process_notebook every rewritten citation [[G]](#global_refG)
\* has 1 <= G <= number of canonical References, and the appended
\* references cell holds exactly one anchor global_refG.
C22_NoDanglingCitation ==
    pc = "done" =>
        \A w \in RewrittenCitations(cells) :
            LET x == cells[w[1]].source[w[2]]
                last == cells[Len(cells)]
            IN  /\ x.n = x.k
                /\ 1 <= x.n /\ x.n <= Len(global_order)
                /\ x.n <= Cardinality(DOMAIN unique_references)
                /\ last.references_section
                /\ w[1] < Len(cells)
                /\ Cardinality(AnchorsOf(last, x.n)) = 1

\* Two canonical References, and a citation rewritten to the second one
C22_Witness ==
    /\ pc = "done"
    /\ Len(global_order) = 2
    /\ \E w \in RewrittenCitations(cells) :
          /\ cells[w[1]].source[w[2]].n = 2
          /\ Cardinality(AnchorsOf(cells[Len(cells)], 2)) = 1

\* C23: after build_global_reference_map, unique_references and
\* global_order hold the same References one-to-one (each under its own
\* normalized text), the normalized texts of the global_order entries are
\* pairwise distinct, and every value of cell_local_refs is a member of
\* global_order with a global number.
C23_RegistryConsistent ==
    MappingDone =>
        /\ Range(unique_references) = Range(global_order)
        /\ Cardinality(DOMAIN unique_references) = Len(global_order)
        /\ \A t \in DOMAIN unique_references :
              normalize_for_dedup(objs[unique_references[t]].definition) = t
        /\ \A i, j \in 1..Len(global_order) :
              i # j =>
                  /\ global_order[i] # global_order[j]
                  /\ normalize_for_dedup(objs[global_order[i]].definition)
                        # normalize_for_dedup(objs[global_order[j]].definition)
        /\ \A key \in DOMAIN cell_local_refs :
              /\ cell_local_refs[key] \in Range(global_order)
              /\ objs[cell_local_refs[key]].global_num # 0

\* Two canonical References, and more keys than References: a definition
\* was deduplicated
C23_Witness ==
    /\ pc = "rewrite"
    /\ idx = 0
    /\ Len(global_order) = 2
    /\ Cardinality(DOMAIN cell_local_refs) > 2

\* C24 (as claimed): after process_notebook no original markdown cell's text
\* holds a local definition start any more.
C24_NoLocalDefinitionLeft ==
    pc = "done" =>
        \A c \in MarkdownIdx(nb) : DefSearch(cells[c + 1].source, 1) = 0

----------------------------------------------------------------------------
(* process_notebook on one cell that cites both numbers and declares up to *)
(* MaxDefs definitions, any anchor with any number                         *)

MaxDefs == 3

ManyDefSegs ==
    {<<NL, Def(k, n), SP>> \o body : k \in Nums, n \in Nums, body \in Bodies}

ManyNotebooks ==
    {<<Cell("markdown", <<Cit(1, 1), SP, Cit(2, 2)>> \o Concat(ss))>> :
        ss \in SeqsUpTo(ManyDefSegs, MaxDefs)}

InitMany ==
    /\ nb \in ManyNotebooks
    /\ cells = nb
    /\ objs = <<>>
    /\ unique_references = <<>>
    /\ cell_local_refs = <<>>
    /\ global_order = <<>>
    /\ pc = "map"
    /\ idx = 0
    /\ markdown_text = <<>>
    /\ arg = <<>>
    /\ ret = <<>>
    /\ ret2 = <<>>
    /\ merged_cfg = <<>>
    /\ new_cells = <<>>

SpecMany == InitMany /\ [][Next]_vars

\* The definitions of cell c (0-based) numbered n, in text order
DefinitionsNumbered(c, n) ==
    SelectSeq(DefinitionsByPosition(c, nb[c + 1].source),
              LAMBDA d : d.local_num = n)

\* C25 (as claimed): when a cell declares several definitions under the same
\* local number with different texts, cell_local_refs maps (cell, number) to
\* the Reference of the definition that comes last in the cell's text, and
\* the citations of that number in the cell are rewritten to it.
C25_LastDefinitionWins ==
    MappingDone =>
        \A c \in MarkdownIdx(nb) : \A n \in Nums :
            LET ds == DefinitionsNumbered(c, n)
            IN  (\E i, j \in 1..Len(ds) : ds[i].definition # ds[j].definition) =>
                    /\ <<c, n>> \in DOMAIN cell_local_refs
                    /\ normalize_for_dedup(objs[cell_local_refs[<<c, n>>]].definition)
                          = normalize_for_dedup(ds[Len(ds)].definition)
                    /\ pc = "done" =>
                          \A i \in 1..Len(cells[c + 1].source) :
                              (nb[c + 1].source[i] = Cit(n, n)) =>
                                  cells[c + 1].source[i]
                                      = GCit(objs[cell_local_refs[<<c, n>>]].global_num)

----------------------------------------------------------------------------
(* process_notebook called again, with a fresh ReferenceManager, on the    *)
(* cell list a first call has processed                                    *)

\* Documents of one markdown cell
OneCellDocuments == {<<Cell("markdown", src)>> : src \in MarkdownSources}

InitAgain ==
    /\ nb \in OneCellDocuments
    /\ cells = nb
    /\ objs = <<>>
    /\ unique_references = <<>>
    /\ cell_local_refs = <<>>
    /\ global_order = <<>>
    /\ pc = "map"
    /\ idx = 0
    /\ markdown_text = <<>>
    /\ arg = <<>>
    /\ ret = <<>>
    /\ ret2 = <<>>
    /\ merged_cfg = <<>>
    /\ new_cells = <<>>

\* ReferenceManager().process_notebook(notebook) on the processed notebook;
\* arg keeps the cell list that is passed
ProcessAgain ==
    /\ pc = "done"
    /\ arg = <<>>
    /\ arg' = cells
    /\ objs' = <<>>
    /\ unique_references' = <<>>
    /\ cell_local_refs' = <<>>
    /\ global_order' = <<>>
    /\ pc' = "map"
    /\ idx' = 0
    /\ UNCHANGED <<nb, cells, markdown_text, ret, ret2, merged_cfg, new_cells>>

NextAgain == Next \/ ProcessAgain

SpecAgain == InitAgain /\ [][NextAgain]_vars

\* C26 (as claimed): the second call registers no definition, changes no
\* cell text and appends no cell.
C26_ReprocessingIsNoOp ==
    (pc = "done" /\ arg # <<>>) =>
        /\ cells = arg
        /\ global_order = <<>>
        /\ cell_local_refs = <<>>

----------------------------------------------------------------------------
(* One ReferenceManager processes a first document and then a second one;  *)
(* the second document is then processed by a fresh ReferenceManager       *)

\* First documents: one markdown cell of at most one segment
FirstDocuments == {<<Cell("markdown", src)>> : src \in {<<>>} \cup Segments}

InitReuse ==
    /\ nb \in FirstDocuments
    /\ cells = nb
    /\ objs = <<>>
    /\ unique_references = <<>>
    /\ cell_local_refs = <<>>
    /\ global_order = <<>>
    /\ pc = "map"
    /\ idx = 0
    /\ markdown_text = <<>>
    /\ arg = <<>>
    /\ ret = <<>>
    /\ ret2 = <<>>
    /\ merged_cfg = <<>>
    /\ new_cells = <<>>

\* What a call of process_notebook leaves: the cell texts, the appended
\* references cell among them, and the global number of every key
Outcome ==
    [cells |-> cells,
     numbers |-> [key \in DOMAIN cell_local_refs |->
                     objs[cell_local_refs[key]].global_num]]

\* Faulty variant of ProcessSecondDocument: the manager is handed the cells
\* of the first document again
ProcessSecondDocumentStale ==
    /\ pc = "done"
    /\ arg = <<>>
    /\ \E doc \in OneCellDocuments : arg' = doc
    /\ pc' = "map"
    /\ idx' = 0
    /\ UNCHANGED <<nb, cells, objs, unique_references, cell_local_refs, global_order,
                   markdown_text, ret, ret2, merged_cfg, new_cells>>

\* The same manager: process_notebook(second document); arg keeps the
\* document
ProcessSecondDocument ==
    /\ pc = "done"
    /\ arg = <<>>
    /\ \E doc \in OneCellDocuments :
          /\ arg' = doc
          /\ cells' = doc
    /\ pc' = "map"
    /\ idx' = 0
    /\ UNCHANGED <<nb, objs, unique_references, cell_local_refs, global_order,
                   markdown_text, ret, ret2, merged_cfg, new_cells>>

\* ReferenceManager().process_notebook(second document); ret keeps what the
\* call on the used manager left
ProcessFresh ==
    /\ pc = "done"
    /\ arg # <<>>
    /\ ret = <<>>
    /\ ret' = Outcome
    /\ cells' = arg
    /\ objs' = <<>>
    /\ unique_references' = <<>>
    /\ cell_local_refs' = <<>>
    /\ global_order' = <<>>
    /\ pc' = "map"
    /\ idx' = 0
    /\ UNCHANGED <<nb, arg, markdown_text, ret2, merged_cfg, new_cells>>

NextReuse == Next \/ ProcessSecondDocument \/ ProcessFresh

SpecReuse == InitReuse /\ [][NextReuse]_vars

----------------------------------------------------------------------------
(* process_notebook on cells that hold page-break markers                  *)

MaxBreakSegs == 3

BreakSegments ==
    { <<Ch("a")>>,
      <<Cit(1, 1)>>,
      <<NL, PB>>,
      <<NL, HR, NL, HDR, NL>>,
      <<NL, Def(1, 1), SP, Ch("a"), Ch(".")>>,
      <<NL, Def(1, 1), SP, Ch("a"), Ch("."), NL, PB>>,
      <<NL, Def(2, 2), SP, Ch("b"), Ch(".")>> }

\* One cell of up to MaxBreakSegs segments, or two cells of at most one
BreakNotebooks ==
    {<<Cell("markdown", Concat(ss))>> : ss \in SeqsUpTo(BreakSegments, MaxBreakSegs)}
    \cup {<<Cell("markdown", s), Cell("markdown", t)>> :
             s \in {<<>>} \cup BreakSegments, t \in {<<>>} \cup BreakSegments}

InitBreaks ==
    /\ nb \in BreakNotebooks
    /\ cells = nb
    /\ objs = <<>>
    /\ unique_references = <<>>
    /\ cell_local_refs = <<>>
    /\ global_order = <<>>
    /\ pc = "map"
    /\ idx = 0
    /\ markdown_text = <<>>
    /\ arg = <<>>
    /\ ret = <<>>
    /\ ret2 = <<>>
    /\ merged_cfg = <<>>
    /\ new_cells = <<>>

SpecBreaks == InitBreaks /\ [][Next]_vars

\* Number of page-break markers in a text
PageBreaks_in(text) == Cardinality({i \in 1..Len(text) : text[i] = PB})

\* The appended references cell's text, empty when none was appended
ReferencesText ==
    IF cells # <<>> /\ cells[Len(cells)].references_section
    THEN cells[Len(cells)].source
    ELSE <<>>

\* C29 (as claimed): the page-break markers a markdown cell held before
\* process_notebook are all found afterwards, in the cell's retained text or
\* in the appended references cell.
C29_PageBreaksSurvive ==
    pc = "done" =>
        \A c \in MarkdownIdx(nb) :
            PageBreaks_in(nb[c + 1].source)
                <= PageBreaks_in(cells[c + 1].source) + PageBreaks_in(ReferencesText)

\* C29 (amended): the markers that stand before the cut point of their cell,
\* and all markers of a cell from which nothing is cut, are still in the
\* cell's retained text; the markers inside the definition text of a
\* canonical Reference are in the appended references cell; no other marker
\* is kept.
C29_PageBreaksBeforeCutOrInDefinition ==
    pc = "done" =>
        /\ \A c \in MarkdownIdx(nb) :
              LET text == nb[c + 1].source
                  cut == CutPoint(text)
              IN  PageBreaks_in(cells[c + 1].source)
                      = IF cut = 0 THEN PageBreaks_in(text)
                        ELSE PageBreaks_in(Slice(text, 1, cut - 1))
        /\ PageBreaks_in(ReferencesText)
              = PageBreaks_in(Concat([i \in 1..Len(global_order) |->
                                         objs[global_order[i]].definition]))

\* One marker is kept before the cut, one travels with a definition, and one
\* more is dropped with the removed block
C29_Witness ==
    /\ pc = "done"
    /\ Len(nb) = 1
    /\ PageBreaks_in(nb[1].source) > 1
    /\ PageBreaks_in(cells[1].source) = 1
    /\ PageBreaks_in(ReferencesText) = 1

----------------------------------------------------------------------------
(* preprocess_notebook: consolidation before removal by tag                *)

\* 0-based indices, in the input, of the cells without a removal tag
KeptIndices(cs, config) ==
    LET F[i \in 0..Len(cs)] ==
            IF i = 0 THEN <<>>
            ELSE IF should_remove_cell(cs[i], config) THEN F[i - 1]
                 ELSE Append(F[i - 1], i - 1)
    IN  F[Len(cs)]

\* The global number of a definition when the whole input is numbered: the
\* rank of its normalized text by first appearance over all cells
FullNumber(d) ==
    LET defs == AllDefinitions(nb)
        order == FirstAppearance([i \in 1..Len(defs) |->
                                     normalize_for_dedup(defs[i].definition)])
    IN  CHOOSE g \in 1..Len(order) : order[g] = normalize_for_dedup(d.definition)

\* The numbers the citations of input cell c must carry: those of the
\* retained text whose local number the cell defines, numbered over the
\* whole input
FullNumbering(c) ==
    LET text == nb[c + 1].source
        cut == CutPoint(text)
        retained == IF cut = 0 THEN text ELSE Slice(text, 1, cut - 1)
        defs == AllDefinitions(nb)
        Mine(x) == {i \in 1..Len(defs) :
                       defs[i].cell_index = c /\ defs[i].local_num = x.n}
        cits == SelectSeq(retained,
                          LAMBDA x : CITATION_PATTERN(x) /\ Mine(x) # {})
    IN  [i \in 1..Len(cits) |-> FullNumber(defs[Max(Mine(cits[i]))])]

\* The numbers of the rewritten citations of a text, in order
GlobalCitations(text) ==
    LET gs == SelectSeq(text, LAMBDA x : x.t = "gcit")
    IN  [i \in 1..Len(gs) |-> gs[i].n]

\* C30: with centralize_references on, a reference defined in a cell that is
\* removed by tag has its global number and exactly one anchor in the
\* appended references cell, and the citations of the remaining cells carry
\* the numbers computed over the full, unfiltered cell list.
C30_ConsolidationBeforeRemoval ==
    (pc = "returned" /\ merged_cfg.centralize_references) =>
        LET defs == AllDefinitions(nb)
            kept == KeptIndices(nb, merged_cfg)
        IN  /\ \A i \in 1..Len(defs) :
                  should_remove_cell(nb[defs[i].cell_index + 1], merged_cfg) =>
                      LET key == <<defs[i].cell_index, defs[i].local_num>>
                      IN  /\ key \in DOMAIN cell_local_refs
                          /\ objs[cell_local_refs[key]].global_num
                                = FullNumber(defs[i])
                          /\ cells # <<>>
                          /\ cells[Len(cells)].references_section
                          /\ Cardinality(AnchorsOf(cells[Len(cells)],
                                                   FullNumber(defs[i]))) = 1
            /\ \A j \in 1..Len(kept) :
                  nb[kept[j] + 1].cell_type = "markdown" =>
                      GlobalCitations(cells[j].source) = FullNumbering(kept[j])

\* The first cell is removed by tag and defines reference 1; the second cell
\* is kept and its citation is rewritten to reference 2
C30_Witness ==
    /\ pc = "returned"
    /\ merged_cfg.centralize_references
    /\ Len(nb) = 2
    /\ should_remove_cell(nb[1], merged_cfg)
    /\ ~should_remove_cell(nb[2], merged_cfg)
    /\ HasDefinition(<<nb[1]>>)
    /\ Len(cells) = 2
    /\ GlobalCitations(cells[1].source) = <<2>>
    /\ Cardinality(AnchorsOf(cells[2], 1)) = 1
    /\ Cardinality(AnchorsOf(cells[2], 2)) = 1

=============================================================================
